---- MODULE Spec2Model ----
(***************************************************************************)
(* Model of serenity's generic event collector                             *)
(* (src/collector/generic_collector.rs): the EventFilter gate that the     *)
(* shard runner pushes events into, the unbounded channel between filter   *)
(* and collector, the EventCollectorBuilder future that creates and        *)
(* registers the pair, and the EventCollector stream with its timeout.     *)
(***************************************************************************)
EXTENDS Integers, Sequences, FiniteSets, TLC

\* Bounds of the model.
MaxCalls == 3
MaxLimit == 2
MaxPolls == 3

\* Option<T>: None is the empty set, Some(x) the singleton {x}.
None == {}
Some(x) == {x}
Unwrap(o) == CHOOSE x \in o : TRUE

\* The identifying fields of the events the dispatcher offers
\* (guild_id is optional, channel_id and author.id are not).
EventShapes ==
    { [guild_id |-> Some(1), channel_id |-> 5, author_id |-> 2],
      [guild_id |-> None,    channel_id |-> 7, author_id |-> 3] }

\* The event of the n-th dispatch: its fields plus a unique message id.
MkEvent(n, s) ==
    [id |-> n, guild_id |-> s.guild_id, channel_id |-> s.channel_id,
     author_id |-> s.author_id]

\* Values the limit setters are called with (None: the setter is not called).
LimitChoices == {None} \cup { Some(n) : n \in 0..MaxLimit }
\* The constraint and predicate settings the builder is configured with:
\* <<guild_id, channel_id, author_id, filter>>.
ConstraintChoices ==
    { <<None,    None,    None,    None>>,
      <<None,    Some(5), None,    None>>,
      <<Some(1), None,    Some(2), None>>,
      <<None,    None,    None,    Some("in_guild")>>,
      <<None,    Some(5), None,    Some("in_guild")>> }
\* Values timeout() is called with (None: it is not called).
DurationChoices == {None, Some(1), Some(2)}

\* delay_for(duration) called at time t: a Delay that is elapsed from
\* t + duration on.
delay_for(t, d) == t + d

\* Polling a Delay: Ready once the clock has reached its deadline.
DelayElapsed(deadline, t) == t >= deadline

\* The custom predicates (closures) used in the model.
ApplyFilter(f, e) ==
    CASE f = "in_guild" -> e.guild_id # None

VARIABLES
    now,          \* wall clock
    options,      \* FilterOptions (the builder's, then the filter's)
    timeout,      \* Option<Delay>: the deadline (the builder's, then the collector's)
    fut,          \* EventCollectorBuilder.fut: "none" or "ready"
    filterState,  \* EventFilter: "unborn", "registered" or "removed"
    filtered,     \* EventFilter.filtered
    collected,    \* EventFilter.collected
    queue,        \* events buffered in the unbounded channel
    rxClosed,     \* the receiving half has been closed
    collector,    \* EventCollector: "none", "active" or "gone"
    calls,        \* history: events passed to send_message
    rets,         \* history: the value each send_message call returned
    sent,         \* history: events successfully enqueued
    observed,     \* history: events yielded by poll_next
    lastPull,     \* latest poll_next: its outcome ("none" before the first,
                  \* "pending", "item" or "end") and the time it was made
    duration,     \* history: the argument timeout() was called with, if it was
    resolvedAt,   \* history: the time the builder resolved into the collector
    closedAt,     \* history: number of send_message calls made before the
                  \* receiver was closed
    kind,         \* the request type: "EventCollectorBuilder" or "CollectEvent"
    result,       \* CollectEvent: None until resolved, then Some(its output),
                  \* the output being an Option<Arc<Event>>
    registrations,  \* history: number of filter/queue pairs created and
                    \* handed to set_message_filter
    polls,        \* history: number of polls of the request future
    predicateCalls, \* history: events the custom predicate was evaluated on
    firstSentAt,  \* history: for a CollectEvent, the time the first event
                  \* was enqueued
    probe,        \* the event given to is_passing_constraints on its own
    matched       \* the value is_passing_constraints returned for probe

vars == <<now, options, timeout, fut, filterState, filtered, collected, queue,
          rxClosed, collector, calls, rets, sent, observed, lastPull, duration,
          resolvedAt, closedAt, kind, result, registrations, polls,
          predicateCalls, firstSentAt, probe, matched>>

\* The variables of the request future and of the stand-alone matcher.
requestVars == <<kind, result, registrations, polls>>
matcherVars == <<probe, matched>>

\* Variant of is_passing_constraints: the channel_id constraint is not
\* checked.
is_passing_constraints_no_channel(opts, e) ==
    /\ \A g \in opts.guild_id : Some(g) = e.guild_id
    /\ \A a \in opts.author_id : a = e.author_id

\* Variant of is_passing_constraints: an event without guild passes a set
\* guild_id constraint.
is_passing_constraints_guild_lenient(opts, e) ==
    /\ \A g \in opts.guild_id : e.guild_id = None \/ Some(g) = e.guild_id
    /\ \A c \in opts.channel_id : c = e.channel_id
    /\ \A a \in opts.author_id : a = e.author_id

\* EventFilter::is_passing_constraints
is_passing_constraints(opts, e) ==
    /\ \A g \in opts.guild_id : Some(g) = e.guild_id
    /\ \A c \in opts.channel_id : c = e.channel_id
    /\ \A a \in opts.author_id : a = e.author_id

\* Variant of is_within_limits: a limit that is not set counts as reached.
is_within_limits_unset_blocks(opts, nfiltered, ncollected) ==
    /\ opts.filter_limit # None
    /\ opts.collect_limit # None
    /\ \A limit \in opts.filter_limit : nfiltered < limit
    /\ \A limit \in opts.collect_limit : ncollected < limit

\* Variant of is_within_limits: a limit counts as reached only once it is
\* exceeded.
is_within_limits_inclusive(opts, nfiltered, ncollected) ==
    /\ \A limit \in opts.filter_limit : nfiltered <= limit
    /\ \A limit \in opts.collect_limit : ncollected <= limit

\* EventFilter::is_within_limits
is_within_limits(opts, nfiltered, ncollected) ==
    /\ \A limit \in opts.filter_limit : nfiltered < limit
    /\ \A limit \in opts.collect_limit : ncollected < limit

\* The predicate step of send_message: options.filter.map_or(true, |f| f(e)).
passes_filter(opts, e) == \A f \in opts.filter : ApplyFilter(f, e)

\* Variant of PredicateRuns: the predicate is evaluated before the
\* constraints are looked at.
PredicateRuns_before_constraints(opts, e) == opts.filter # None

\* Whether send_message evaluates the custom predicate on e: it is reached
\* only behind is_passing_constraints, and only if one is set.
PredicateRuns(opts, e) == is_passing_constraints(opts, e) /\ opts.filter # None

\* Variant of send_message: the limits are checked against the counters as
\* they were before this call.
send_message_stale_limits(opts, nf, nc, q, closed, e) ==
    IF is_passing_constraints(opts, e) /\ passes_filter(opts, e)
    THEN IF closed
         THEN [filtered |-> nf, collected |-> nc + 1, queue |-> q,
               predicate_called |-> PredicateRuns(opts, e),
               enqueued |-> FALSE, ret |-> FALSE]
         ELSE [filtered |-> nf + 1, collected |-> nc + 1, queue |-> Append(q, e),
               predicate_called |-> PredicateRuns(opts, e),
               enqueued |-> TRUE, ret |-> is_within_limits(opts, nf, nc)]
    ELSE [filtered |-> nf + 1, collected |-> nc, queue |-> q,
          predicate_called |-> PredicateRuns(opts, e),
               enqueued |-> FALSE, ret |-> is_within_limits(opts, nf, nc)]

\* Variant of send_message: filtered counts only the accepted events.
send_message_counts_accepted(opts, nf, nc, q, closed, e) ==
    IF is_passing_constraints(opts, e) /\ passes_filter(opts, e)
    THEN IF closed
         THEN [filtered |-> nf, collected |-> nc + 1, queue |-> q,
               predicate_called |-> PredicateRuns(opts, e),
               enqueued |-> FALSE, ret |-> FALSE]
         ELSE [filtered |-> nf + 1, collected |-> nc + 1, queue |-> Append(q, e),
               predicate_called |-> PredicateRuns(opts, e),
               enqueued |-> TRUE,
               ret |-> is_within_limits(opts, nf + 1, nc + 1)]
    ELSE [filtered |-> nf, collected |-> nc, queue |-> q,
          predicate_called |-> PredicateRuns(opts, e),
               enqueued |-> FALSE, ret |-> is_within_limits(opts, nf, nc)]

\* Variant of send_message: collected is incremented after a successful
\* send only.
send_message_collects_after_send(opts, nf, nc, q, closed, e) ==
    IF is_passing_constraints(opts, e) /\ passes_filter(opts, e)
    THEN IF closed
         THEN [filtered |-> nf, collected |-> nc, queue |-> q,
               predicate_called |-> PredicateRuns(opts, e),
               enqueued |-> FALSE, ret |-> FALSE]
         ELSE [filtered |-> nf + 1, collected |-> nc + 1, queue |-> Append(q, e),
               predicate_called |-> PredicateRuns(opts, e),
               enqueued |-> TRUE,
               ret |-> is_within_limits(opts, nf + 1, nc + 1)]
    ELSE [filtered |-> nf + 1, collected |-> nc, queue |-> q,
          predicate_called |-> PredicateRuns(opts, e),
               enqueued |-> FALSE,
          ret |-> is_within_limits(opts, nf + 1, nc)]

\* Variant of send_message: a failed send is not noticed.
send_message_ignores_closed(opts, nf, nc, q, closed, e) ==
    IF is_passing_constraints(opts, e) /\ passes_filter(opts, e)
    THEN [filtered |-> nf + 1, collected |-> nc + 1,
          queue |-> IF closed THEN q ELSE Append(q, e),
          predicate_called |-> PredicateRuns(opts, e),
          enqueued |-> ~closed,
          ret |-> is_within_limits(opts, nf + 1, nc + 1)]
    ELSE [filtered |-> nf + 1, collected |-> nc, queue |-> q,
          predicate_called |-> PredicateRuns(opts, e),
          enqueued |-> FALSE,
          ret |-> is_within_limits(opts, nf + 1, nc)]

\* Variant of send_message: a closed receiver deactivates the filter on
\* every call, also for a rejected event.
send_message_checks_closed_always(opts, nf, nc, q, closed, e) ==
    IF is_passing_constraints(opts, e) /\ passes_filter(opts, e)
    THEN IF closed
         THEN [filtered |-> nf, collected |-> nc + 1, queue |-> q,
               predicate_called |-> PredicateRuns(opts, e),
               enqueued |-> FALSE, ret |-> FALSE]
         ELSE [filtered |-> nf + 1, collected |-> nc + 1, queue |-> Append(q, e),
               predicate_called |-> PredicateRuns(opts, e),
               enqueued |-> TRUE,
               ret |-> is_within_limits(opts, nf + 1, nc + 1)]
    ELSE [filtered |-> nf + 1, collected |-> nc, queue |-> q,
          predicate_called |-> PredicateRuns(opts, e),
          enqueued |-> FALSE,
          ret |-> ~closed /\ is_within_limits(opts, nf + 1, nc)]

\* Variant of send_message: collected counts every event that passes the
\* constraints, whatever the predicate says.
send_message_collects_matches(opts, nf, nc, q, closed, e) ==
    IF is_passing_constraints(opts, e) /\ passes_filter(opts, e)
    THEN IF closed
         THEN [filtered |-> nf, collected |-> nc + 1, queue |-> q,
               predicate_called |-> PredicateRuns(opts, e),
               enqueued |-> FALSE, ret |-> FALSE]
         ELSE [filtered |-> nf + 1, collected |-> nc + 1, queue |-> Append(q, e),
               predicate_called |-> PredicateRuns(opts, e),
               enqueued |-> TRUE,
               ret |-> is_within_limits(opts, nf + 1, nc + 1)]
    ELSE IF is_passing_constraints(opts, e)
         THEN [filtered |-> nf + 1, collected |-> nc + 1, queue |-> q,
               predicate_called |-> PredicateRuns(opts, e),
               enqueued |-> FALSE,
               ret |-> is_within_limits(opts, nf + 1, nc + 1)]
         ELSE [filtered |-> nf + 1, collected |-> nc, queue |-> q,
               predicate_called |-> PredicateRuns(opts, e),
               enqueued |-> FALSE,
               ret |-> is_within_limits(opts, nf + 1, nc)]

\* EventFilter::send_message on a filter with counters nf, nc, a channel
\* holding q whose receiving half is closed or not: the new counters, the
\* new channel content and the returned value.
send_message(opts, nf, nc, q, closed, e) ==
    IF is_passing_constraints(opts, e) /\ passes_filter(opts, e)
    THEN IF closed
         THEN [filtered |-> nf, collected |-> nc + 1, queue |-> q,
               predicate_called |-> PredicateRuns(opts, e),
               enqueued |-> FALSE, ret |-> FALSE]
         ELSE [filtered |-> nf + 1, collected |-> nc + 1, queue |-> Append(q, e),
               predicate_called |-> PredicateRuns(opts, e),
               enqueued |-> TRUE,
               ret |-> is_within_limits(opts, nf + 1, nc + 1)]
    ELSE [filtered |-> nf + 1, collected |-> nc, queue |-> q,
          predicate_called |-> PredicateRuns(opts, e),
               enqueued |-> FALSE,
          ret |-> is_within_limits(opts, nf + 1, nc)]

\* Variant of poll_next: the receiver hands out the newest buffered event.
poll_next_newest_first(tmo, t, q, senderAlive) ==
    IF \E deadline \in tmo : DelayElapsed(deadline, t)
    THEN [kind |-> "end", item |-> None, queue |-> q]
    ELSE IF q # <<>>
         THEN [kind |-> "item", item |-> Some(q[Len(q)]),
               queue |-> SubSeq(q, 1, Len(q) - 1)]
         ELSE IF senderAlive
              THEN [kind |-> "pending", item |-> None, queue |-> q]
              ELSE [kind |-> "end", item |-> None, queue |-> q]

\* Variant of poll_next: the receiver is polled before the timeout.
poll_next_receiver_first(tmo, t, q, senderAlive) ==
    IF q # <<>>
    THEN [kind |-> "item", item |-> Some(Head(q)), queue |-> Tail(q)]
    ELSE IF \E deadline \in tmo : DelayElapsed(deadline, t)
         THEN [kind |-> "end", item |-> None, queue |-> q]
         ELSE IF senderAlive
              THEN [kind |-> "pending", item |-> None, queue |-> q]
              ELSE [kind |-> "end", item |-> None, queue |-> q]

\* Variant of poll_next: the drop of the sender is not noticed.
poll_next_ignores_sender_drop(tmo, t, q, senderAlive) ==
    IF \E deadline \in tmo : DelayElapsed(deadline, t)
    THEN [kind |-> "end", item |-> None, queue |-> q]
    ELSE IF q # <<>>
         THEN [kind |-> "item", item |-> Some(Head(q)), queue |-> Tail(q)]
         ELSE [kind |-> "pending", item |-> None, queue |-> q]

\* Stream::poll_next of EventCollector: the timeout is polled first, then
\* the receiver (an item if one is buffered, end-of-stream if every sender
\* is gone, Pending otherwise).
poll_next(tmo, t, q, senderAlive) ==
    IF \E deadline \in tmo : DelayElapsed(deadline, t)
    THEN [kind |-> "end", item |-> None, queue |-> q]
    ELSE IF q # <<>>
         THEN [kind |-> "item", item |-> Some(Head(q)), queue |-> Tail(q)]
         ELSE IF senderAlive
              THEN [kind |-> "pending", item |-> None, queue |-> q]
              ELSE [kind |-> "end", item |-> None, queue |-> q]

\* The state right after new() of a request of type k, apart from the
\* settings the setters fill in.
Constructed(k) ==
    /\ now = 0
    /\ kind = k
    /\ fut = "none"
    /\ filterState = "unborn"
    /\ filtered = 0
    /\ collected = 0
    /\ queue = <<>>
    /\ rxClosed = FALSE
    /\ collector = "none"
    /\ calls = <<>>
    /\ rets = <<>>
    /\ sent = <<>>
    /\ observed = <<>>
    /\ lastPull = [kind |-> "none", at |-> 0]
    /\ resolvedAt = None
    /\ closedAt = None
    /\ result = None
    /\ registrations = 0
    /\ polls = 0
    /\ predicateCalls = <<>>
    /\ firstSentAt = None
    /\ probe = None
    /\ matched = None

\* EventCollectorBuilder::new followed by the chain of setters, all called
\* at time 0; timeout(duration) creates the Delay there.
Init ==
    /\ Constructed("EventCollectorBuilder")
    /\ \E fl \in LimitChoices, cl \in LimitChoices, k \in ConstraintChoices :
          options = [filter_limit |-> fl, collect_limit |-> cl, filter |-> k[4],
                     channel_id |-> k[2], guild_id |-> k[1], author_id |-> k[3]]
    /\ \E d \in DurationChoices :
          /\ duration = d
          /\ timeout = { delay_for(now, x) : x \in d }

\* The clock advances. The program reads the clock only by polling the
\* Delay, so time is tracked while a Delay is still running: without one,
\* or past its deadline, a tick changes nothing the program can read.
Tick ==
    /\ \E deadline \in timeout : ~DelayElapsed(deadline, now)
    /\ now' = now + 1
    /\ UNCHANGED <<options, timeout, fut, filterState, filtered, collected, queue,
                   rxClosed, collector, calls, rets, sent, observed, lastPull,
                   duration, resolvedAt, closedAt, requestVars, predicateCalls,
                   firstSentAt, matcherVars>>

\* Variant of needs_start: the inner future is built again as long as the
\* request has not resolved.
needs_start_unless_ready(f) == f # "ready"

\* The guard of both poll functions: self.fut.is_none().
needs_start(f) == f = "none"

\* Future::poll of EventCollectorBuilder: the first poll creates the
\* filter/receiver pair, hands the filter to the shard and resolves to the
\* collector holding the receiver and the timeout.
BuilderPoll ==
    /\ kind = "EventCollectorBuilder"
    /\ fut # "ready"
    /\ needs_start(fut)
    /\ fut' = "ready"
    /\ registrations' = registrations + 1
    /\ polls' = polls + 1
    /\ filterState' = "registered"
    /\ filtered' = 0
    /\ collected' = 0
    /\ queue' = <<>>
    /\ rxClosed' = FALSE
    /\ collector' = "active"
    /\ resolvedAt' = Some(now)
    /\ UNCHANGED <<now, options, timeout, calls, rets, sent, observed, lastPull,
                   duration, closedAt, kind, result, predicateCalls, firstSentAt,
                   matcherVars>>

\* Variant of SendMessage: an elapsed timeout counts as a closed receiver.
SendMessage_timeout_closes ==
    /\ filterState = "registered"
    /\ Len(calls) < MaxCalls
    /\ \E s \in EventShapes :
          LET e == MkEvent(Len(calls) + 1, s)
              r == send_message(options, filtered, collected, queue,
                                rxClosed \/ \E dl \in timeout : DelayElapsed(dl, now), e)
          IN  /\ filtered' = r.filtered
              /\ collected' = r.collected
              /\ queue' = r.queue
              /\ calls' = Append(calls, e)
              /\ rets' = Append(rets, r.ret)
              /\ sent' = IF r.enqueued THEN Append(sent, e) ELSE sent
              /\ predicateCalls' = IF r.predicate_called
                                   THEN Append(predicateCalls, e)
                                   ELSE predicateCalls
              /\ firstSentAt' =
                    IF kind = "CollectEvent" /\ r.enqueued /\ sent = <<>>
                    THEN Some(now) ELSE firstSentAt
    /\ UNCHANGED <<now, options, timeout, fut, filterState, rxClosed, collector,
                   observed, lastPull, duration, resolvedAt, closedAt,
                   requestVars, matcherVars>>

\* The dispatcher offers one event to the registered filter.
SendMessage ==
    /\ filterState = "registered"
    /\ Len(calls) < MaxCalls
    /\ \E s \in EventShapes :
          LET e == MkEvent(Len(calls) + 1, s)
              r == send_message(options, filtered, collected, queue, rxClosed, e)
          IN  /\ filtered' = r.filtered
              /\ collected' = r.collected
              /\ queue' = r.queue
              /\ calls' = Append(calls, e)
              /\ rets' = Append(rets, r.ret)
              /\ sent' = IF r.enqueued THEN Append(sent, e) ELSE sent
              /\ predicateCalls' = IF r.predicate_called
                                   THEN Append(predicateCalls, e)
                                   ELSE predicateCalls
              /\ firstSentAt' =
                    IF kind = "CollectEvent" /\ r.enqueued /\ sent = <<>>
                    THEN Some(now) ELSE firstSentAt
    /\ UNCHANGED <<now, options, timeout, fut, filterState, rxClosed, collector,
                   observed, lastPull, duration, resolvedAt, closedAt,
                   requestVars, matcherVars>>

\* The dispatcher removes (drops) a filter whose send_message returned false.
RemoveFilter ==
    /\ filterState = "registered"
    /\ rets # <<>>
    /\ rets[Len(rets)] = FALSE
    /\ filterState' = "removed"
    /\ UNCHANGED <<now, options, timeout, fut, filtered, collected, queue, rxClosed,
                   collector, calls, rets, sent, observed, lastPull, duration,
                   resolvedAt, closedAt, requestVars, predicateCalls, firstSentAt,
                   matcherVars>>

\* The consumer pulls the next item of the stream.
PollNext ==
    /\ kind = "EventCollectorBuilder"
    /\ collector = "active"
    /\ LET r == poll_next(timeout, now, queue, filterState = "registered")
       IN  /\ lastPull' = [kind |-> r.kind, at |-> now]
           /\ queue' = r.queue
           /\ observed' = IF r.item = None THEN observed
                          ELSE Append(observed, Unwrap(r.item))
    /\ UNCHANGED <<now, options, timeout, fut, filterState, filtered, collected,
                   rxClosed, collector, calls, rets, sent, duration, resolvedAt,
                   closedAt, requestVars, predicateCalls, firstSentAt, matcherVars>>

\* EventCollector::stop: closes the receiver, then the collector (taken by
\* value) is dropped, and the buffered events and the Delay with it.
Stop ==
    /\ kind = "EventCollectorBuilder"
    /\ collector = "active"
    /\ rxClosed' = TRUE
    /\ queue' = <<>>
    /\ collector' = "gone"
    /\ timeout' = None
    /\ closedAt' = Some(Len(calls))
    /\ UNCHANGED <<now, options, fut, filterState, filtered, collected,
                   calls, rets, sent, observed, lastPull, duration, resolvedAt,
                   requestVars, predicateCalls, firstSentAt, matcherVars>>

\* Drop for EventCollector: closes the receiver; the buffered events and
\* the Delay go with the collector. It runs when the user drops the
\* collector a builder resolved to, and when a pending CollectEvent is
\* dropped, whose inner future owns the collector.
Drop ==
    /\ collector = "active"
    /\ rxClosed' = TRUE
    /\ queue' = <<>>
    /\ collector' = "gone"
    /\ timeout' = None
    /\ closedAt' = Some(Len(calls))
    /\ UNCHANGED <<now, options, fut, filterState, filtered, collected,
                   calls, rets, sent, observed, lastPull, duration, resolvedAt,
                   requestVars, predicateCalls, firstSentAt, matcherVars>>

Next ==
    \/ Tick
    \/ BuilderPoll
    \/ SendMessage
    \/ RemoveFilter
    \/ PollNext
    \/ Stop
    \/ Drop

Spec == Init /\ [][Next]_vars

\* A consumer that keeps the collector and keeps pulling: it never stops or
\* drops the collector, and a pull that can make progress is eventually made.
NextPulling ==
    \/ Tick
    \/ BuilderPoll
    \/ SendMessage
    \/ RemoveFilter
    \/ PollNext

FairSpec == Init /\ [][NextPulling]_vars /\ WF_vars(PollNext)

\* CollectEvent::new followed by the chain of setters (CollectEvent has no
\* collect_limit setter), all called at time 0.
InitOneShot ==
    /\ Constructed("CollectEvent")
    /\ \E fl \in LimitChoices, k \in ConstraintChoices :
          options = [filter_limit |-> fl, collect_limit |-> None, filter |-> k[4],
                     channel_id |-> k[2], guild_id |-> k[1], author_id |-> k[3]]
    /\ \E d \in DurationChoices :
          /\ duration = d
          /\ timeout = { delay_for(now, x) : x \in d }

\* Future::poll of CollectEvent: the first poll creates the filter/receiver
\* pair and the inner future; every poll drives the inner future, which
\* registers the filter, builds the collector and awaits its next(). When
\* next() is ready the request resolves to its output and the collector,
\* a temporary of the inner future, is dropped (its receiver closed).
CollectEventPoll ==
    /\ kind = "CollectEvent"
    /\ fut # "ready"
    /\ fut = "pending" => collector = "active"
    /\ polls < MaxPolls
    /\ polls' = polls + 1
    /\ LET start == needs_start(fut)
           r == poll_next(timeout, now,
                          IF start THEN <<>> ELSE queue,
                          start \/ filterState = "registered")
       IN  /\ registrations' = IF start THEN registrations + 1 ELSE registrations
           /\ filterState' = IF start THEN "registered" ELSE filterState
           /\ filtered' = IF start THEN 0 ELSE filtered
           /\ collected' = IF start THEN 0 ELSE collected
           /\ resolvedAt' = IF start THEN Some(now) ELSE resolvedAt
           /\ lastPull' = [kind |-> r.kind, at |-> now]
           /\ observed' = IF r.item = None THEN observed
                          ELSE Append(observed, Unwrap(r.item))
           /\ IF r.kind = "pending"
              THEN /\ fut' = "pending"
                   /\ collector' = "active"
                   /\ queue' = r.queue
                   /\ rxClosed' = FALSE
                   /\ UNCHANGED <<result, timeout, closedAt>>
              ELSE /\ fut' = "ready"
                   /\ result' = Some(r.item)
                   /\ collector' = "gone"
                   /\ queue' = <<>>
                   /\ rxClosed' = TRUE
                   /\ timeout' = None
                   /\ closedAt' = Some(Len(calls))
    /\ UNCHANGED <<now, options, calls, rets, sent, duration, kind,
                   predicateCalls, firstSentAt, matcherVars>>

NextOneShot ==
    \/ Tick
    \/ CollectEventPoll
    \/ SendMessage
    \/ RemoveFilter
    \/ Drop

SpecOneShot == InitOneShot /\ [][NextOneShot]_vars

\* Requests of both types.
InitRequests == Init \/ InitOneShot

NextRequests ==
    \/ Next
    \/ CollectEventPoll

SpecRequests == InitRequests /\ [][NextRequests]_vars

\* is_passing_constraints on its own: every combination of set and unset
\* constraints against events with and without guild.
ProbeShapes ==
    [guild_id : {None, Some(1), Some(2)}, channel_id : {5, 7}, author_id : {2, 3}]

ProbeOptions ==
    [filter_limit : {None}, collect_limit : {None}, filter : {None},
     guild_id : {None, Some(1), Some(2)},
     channel_id : {None, Some(5), Some(7)},
     author_id : {None, Some(2), Some(3)}]

InitMatch ==
    /\ Constructed("EventCollectorBuilder")
    /\ options \in ProbeOptions
    /\ duration = None
    /\ timeout = None

Match ==
    /\ \E s \in ProbeShapes :
          LET e == MkEvent(0, s)
          IN  /\ probe' = Some(e)
              /\ matched' = Some(is_passing_constraints(options, e))
    /\ UNCHANGED <<now, options, timeout, fut, filterState, filtered, collected,
                   queue, rxClosed, collector, calls, rets, sent, observed,
                   lastPull, duration, resolvedAt, closedAt, requestVars,
                   predicateCalls, firstSentAt>>

NextMatch == Match

SpecMatch == InitMatch /\ [][NextMatch]_vars

(***************************************************************************)
(* What the documentation asks of the filter, stated on the events'        *)
(* fields: the reference the properties below compare the code with.       *)
(***************************************************************************)

\* Every constraint that is set equals the event's field.
MeetsConstraints(opts, e) ==
    /\ (opts.guild_id = None \/ opts.guild_id = e.guild_id)
    /\ (opts.channel_id = None \/ opts.channel_id = Some(e.channel_id))
    /\ (opts.author_id = None \/ opts.author_id = Some(e.author_id))

\* The event meets the constraints and, if a predicate is set, the predicate.
Acceptable(opts, e) ==
    /\ MeetsConstraints(opts, e)
    /\ (opts.filter = None \/ ApplyFilter(Unwrap(opts.filter), e))

\* Every event submitted so far is acceptable.
AllAcceptable == \A k \in 1..Len(calls) : Acceptable(options, calls[k])

\* The consumer end has been open during every call made so far.
ConsumerOpen == collector = "active"

\* Scenario B: collect_limit = 1, no filter_limit, open consumer, only
\* acceptable events.
ScenarioB ==
    /\ options.collect_limit = Some(1)
    /\ options.filter_limit = None
    /\ ConsumerOpen
    /\ AllAcceptable

\* C1 as stated: in scenario B the first send_message call returns true and
\* the second returns false without enqueuing its event.
C1_AsStated ==
    ScenarioB =>
        /\ (Len(rets) >= 1 => rets[1] = TRUE)
        /\ (Len(rets) >= 2 =>
               /\ rets[2] = FALSE
               /\ \A i \in 1..Len(sent) : sent[i] # calls[2])

\* C1 (amended): in scenario B the first send_message call already returns
\* false, and its event is enqueued and is the first one the consumer
\* observes; a second call returns false as well and its event is enqueued
\* too.
C1_FirstCallDeactivates ==
    ScenarioB =>
        /\ (Len(rets) >= 1 =>
               /\ rets[1] = FALSE
               /\ sent[1] = calls[1]
               /\ (observed # <<>> => observed[1] = calls[1]))
        /\ (Len(rets) >= 2 =>
               /\ rets[2] = FALSE
               /\ sent[2] = calls[2])

C1_Witness ==
    /\ ScenarioB
    /\ Len(rets) = 2
    /\ observed # <<>>
    /\ Len(queue) = 1

\* C2: with collect_limit = N >= 1, filter_limit unset or greater than N,
\* an open consumer and only acceptable events, the k-th send_message call
\* returns true for k < N and false for k = N.
C2_CollectLimit ==
    \A N \in options.collect_limit :
        ( /\ N >= 1
          /\ \A l \in options.filter_limit : l > N
          /\ ConsumerOpen
          /\ AllAcceptable )
        => \A k \in 1..Len(rets) :
              /\ (k < N => rets[k] = TRUE)
              /\ (k = N => rets[k] = FALSE)

C2_Witness ==
    /\ options.collect_limit = Some(2)
    /\ ConsumerOpen
    /\ AllAcceptable
    /\ rets = <<TRUE, FALSE>>
    /\ filtered = 2

\* C3: with filter_limit = N >= 1, no collect_limit and an open consumer,
\* the k-th send_message call returns true for k < N and false for k = N,
\* whatever mix of accepted and rejected events was submitted.
C3_FilterLimit ==
    \A N \in options.filter_limit :
        ( /\ N >= 1
          /\ options.collect_limit = None
          /\ ConsumerOpen )
        => \A k \in 1..Len(rets) :
              /\ (k < N => rets[k] = TRUE)
              /\ (k = N => rets[k] = FALSE)

C3_Witness ==
    /\ options.filter_limit = Some(2)
    /\ options.collect_limit = None
    /\ ConsumerOpen
    /\ Len(calls) = 2
    /\ ~Acceptable(options, calls[1])
    /\ Acceptable(options, calls[2])
    /\ rets = <<TRUE, FALSE>>

\* The event of the call a step makes.
CalledEvent == calls'[Len(calls')]

\* C4 as stated: every send_message call increments filtered by exactly 1,
\* consumer end open or not, and collected by 1 exactly when its event is
\* acceptable.
C4_AsStated ==
    [][calls' # calls =>
          /\ filtered' = filtered + 1
          /\ collected' = collected +
                 (IF Acceptable(options, CalledEvent) THEN 1 ELSE 0)]_vars

\* C4 (amended): a send_message call increments filtered by exactly 1
\* unless its event is acceptable and the consumer end is closed, in which
\* case it returns before the increment and leaves filtered unchanged;
\* collected is incremented by 1 exactly when the event is acceptable.
C4_Counters ==
    [][calls' # calls =>
          /\ filtered' = filtered +
                 (IF Acceptable(options, CalledEvent) /\ rxClosed THEN 0 ELSE 1)
          /\ collected' = collected +
                 (IF Acceptable(options, CalledEvent) THEN 1 ELSE 0)]_vars

C4_Witness ==
    /\ rxClosed
    /\ Len(calls) = 2
    /\ Acceptable(options, calls[2])
    /\ ~Acceptable(options, calls[1])
    /\ filtered = 1
    /\ collected = 1
    /\ closedAt = Some(1)


\* C5 as stated: the first send_message call made after the collector was
\* stopped or dropped returns false, whatever the event and the limits.
C5_AsStated ==
    \A c \in closedAt : Len(rets) > c => rets[c + 1] = FALSE

\* C6: the events the consumer has observed are a prefix of the events the
\* filter enqueued, and no event is observed twice.
C6_ObservedIsPrefix ==
    /\ Len(observed) <= Len(sent)
    /\ \A i \in 1..Len(observed) : observed[i] = sent[i]
    /\ \A i, j \in 1..Len(observed) : observed[i] = observed[j] => i = j

C6_Witness ==
    /\ Len(sent) = 3
    /\ Len(observed) = 2
    /\ Len(queue) = 1
    /\ sent[1].channel_id # sent[2].channel_id
    /\ lastPull.kind = "item"

\* The subsequence of the acceptable events of a sequence of events.
AcceptableOf(opts, evs) == SelectSeq(evs, LAMBDA e : Acceptable(opts, e))

\* C7: with no limits and no timeout, once the open consumer has pulled the
\* queue empty it has observed exactly the acceptable events submitted so
\* far, filtered is the number of calls and collected the number observed.
C7_NoLimitsDelivery ==
    ( /\ options.filter_limit = None
      /\ options.collect_limit = None
      /\ timeout = None
      /\ ConsumerOpen
      /\ queue = <<>> )
    => /\ observed = AcceptableOf(options, calls)
       /\ filtered = Len(calls)
       /\ collected = Len(observed)

\* Scenario A: channel_id constraint 5, events in channels 5, 7, 5.
C7_Witness ==
    /\ options.filter_limit = None
    /\ options.collect_limit = None
    /\ options.channel_id = Some(5)
    /\ options.filter = None
    /\ timeout = None
    /\ ConsumerOpen
    /\ queue = <<>>
    /\ Len(calls) = 3
    /\ calls[1].channel_id = 5
    /\ calls[2].channel_id = 7
    /\ calls[3].channel_id = 5
    /\ Len(observed) = 2
    /\ filtered = 3
    /\ collected = 2

\* C8: a pull made once the configured timeout has elapsed yields
\* end-of-sequence, also when events are buffered, and so does every later
\* pull; no event is observed through such a pull.
C8_TimeoutTruncates ==
    \A deadline \in timeout :
        ( /\ lastPull.kind # "none"
          /\ lastPull.at >= deadline )
        => lastPull.kind = "end"

C8_Witness ==
    /\ timeout # None
    /\ collector = "active"
    /\ filterState = "registered"
    /\ lastPull.kind = "end"
    /\ Len(queue) = 2
    /\ Len(observed) = 1

\* C9 as stated: the timeout counts from the resolution of the request: a
\* request given timeout d at time 0 and resolved at t1 > 0 does not end
\* the sequence on a pull made before t1 + d (the filter still being
\* registered, only the timeout can end it).
C9_AsStated ==
    \A d \in duration : \A t1 \in resolvedAt :
        ( /\ t1 > 0
          /\ filterState = "registered"
          /\ lastPull.kind # "none"
          /\ lastPull.at < t1 + d )
        => lastPull.kind # "end"

\* C10: once the filter has been removed after reporting deactivation, a
\* consumer without timeout that keeps pulling eventually has received
\* every event that was enqueued and observes end-of-sequence.
C10_DrainsThenEnds ==
    (filterState = "removed" /\ timeout = None)
        ~> (lastPull.kind = "end" /\ observed = sent)

C10_Witness ==
    /\ filterState = "removed"
    /\ timeout = None
    /\ options.collect_limit = Some(2)
    /\ rets = <<TRUE, TRUE, FALSE>>
    /\ lastPull.kind = "end"
    /\ observed = sent
    /\ Len(sent) = 2


\* C11: is_passing_constraints returns true iff every constraint that is
\* set equals the event's field; an unset constraint never rejects, and a
\* set guild_id constraint rejects an event without guild.
C11_MatchesIffSetFieldsEqual ==
    \A e \in probe : matched = Some(MeetsConstraints(options, e))

C11_Witness ==
    /\ options.guild_id = Some(1)
    /\ options.channel_id = None
    /\ options.author_id = None
    /\ probe # None
    /\ Unwrap(probe).guild_id = None
    /\ matched = Some(FALSE)


\* The deadline of the Delay that timeout() created at time 0.
Deadlines == { delay_for(0, d) : d \in duration }

\* C12 as stated: the one-shot request resolves to the first event its
\* filter accepted, and to no event only if the timeout elapsed before any
\* event was accepted or the queue closed with nothing buffered.
C12_AsStated ==
    \A out \in result :
        out = IF /\ sent # <<>>
                 /\ \A dl \in Deadlines : \A t \in firstSentAt : t < dl
              THEN Some(sent[1]) ELSE None

\* C12 (amended): the one-shot request resolves exactly once; it resolves
\* to the first event its filter accepted if the timeout has not elapsed at
\* the poll that finds the event, and to no event if the timeout has
\* elapsed at that poll, an accepted event being buffered or not, or if the
\* queue is closed with nothing buffered.
C12_OneShotResult ==
    /\ [](\A out \in result :
            out = IF /\ sent # <<>>
                     /\ \A dl \in Deadlines : lastPull.at < dl
                  THEN Some(sent[1]) ELSE None)
    /\ [][result # None => result' = result]_vars

C12_Witness ==
    /\ duration # None
    /\ Len(calls) = 2
    /\ ~Acceptable(options, calls[1])
    /\ result = Some(Some(calls[2]))
    /\ polls = 2


\* The registrant has kept its contract so far: no send_message call was
\* made after one that returned false.
ContractKept == \A k \in 1..(Len(rets) - 1) : rets[k] = TRUE

\* C13 as stated: with collect_limit = N, N >= 0, and a registrant that
\* keeps its contract, never more than N events are enqueued, and so never
\* more than N are buffered.
C13_AsStated ==
    \A N \in options.collect_limit :
        ContractKept => (Len(sent) <= N /\ Len(queue) <= N)

\* The calls made after the receiver was closed.
CallsAfterClose == { k \in 1..Len(calls) : \E c \in closedAt : k > c }

\* The calls whose event was acceptable.
AcceptableCalls == { k \in 1..Len(calls) : Acceptable(options, calls[k]) }

\* C14: a call whose acceptable event meets a closed consumer end returns
\* false whatever the limits, enqueues nothing, and still counts the event
\* in collected.
C14_FailedSend ==
    /\ \A k \in CallsAfterClose \cap AcceptableCalls :
          /\ rets[k] = FALSE
          /\ \A i \in 1..Len(sent) : sent[i] # calls[k]
    /\ collected = Cardinality(AcceptableCalls)

C14_Witness ==
    /\ options.filter_limit = None
    /\ options.collect_limit = None
    /\ closedAt = Some(1)
    /\ Len(calls) = 2
    /\ AcceptableCalls = {1, 2}
    /\ rets = <<TRUE, FALSE>>
    /\ Len(sent) = 1
    /\ collected = 2

\* The calls whose event met the constraints.
MatchingCalls == { k \in 1..Len(calls) : MeetsConstraints(options, calls[k]) }

\* C15: the predicate is evaluated only on events that meet the
\* constraints (on each of them, if one is set); an event that fails a
\* constraint is neither counted in collected nor enqueued.
C15_PredicateBehindConstraints ==
    /\ predicateCalls =
          IF options.filter = None THEN <<>>
          ELSE SelectSeq(calls, LAMBDA e : MeetsConstraints(options, e))
    /\ \A i \in 1..Len(sent) : MeetsConstraints(options, sent[i])
    /\ collected <= Cardinality(MatchingCalls)

C15_Witness ==
    /\ options.channel_id = Some(5)
    /\ options.filter # None
    /\ Len(calls) = 2
    /\ ~MeetsConstraints(options, calls[1])
    /\ predicateCalls = <<calls[2]>>
    /\ collected = 1
    /\ sent = <<calls[2]>>

\* The timeout of the collector has elapsed.
TimeoutElapsed == \E dl \in timeout : now >= dl

\* C16: while the collector exists, a send_message call made after the
\* timeout has elapsed enqueues an acceptable event, updates the counters
\* as usual and returns the result of the limit check.
C16_TimeoutLeavesProducer ==
    [][(calls' # calls /\ collector = "active" /\ TimeoutElapsed) =>
          /\ filtered' = filtered + 1
          /\ IF Acceptable(options, CalledEvent)
             THEN /\ queue' = Append(queue, CalledEvent)
                  /\ collected' = collected + 1
             ELSE /\ queue' = queue
                  /\ collected' = collected
          /\ rets'[Len(rets')] =
                ( /\ \A l \in options.filter_limit : filtered' < l
                  /\ \A l \in options.collect_limit : collected' < l )
          /\ filterState' = "registered"]_vars

C16_Witness ==
    /\ duration = Some(1)
    /\ resolvedAt = Some(1)
    /\ collector = "active"
    /\ filterState = "registered"
    /\ lastPull.kind = "end"
    /\ rets = <<TRUE, TRUE>>
    /\ Len(queue) = 2

\* C17: with neither limit set and the consumer end open, every
\* send_message call returns true.
C17_NoLimitsStayActive ==
    ( /\ options.filter_limit = None
      /\ options.collect_limit = None
      /\ ConsumerOpen )
    => \A k \in 1..Len(rets) : rets[k] = TRUE

C17_Witness ==
    /\ options.filter_limit = None
    /\ options.collect_limit = None
    /\ ConsumerOpen
    /\ Len(rets) = 3
    /\ AcceptableCalls = {1, 3}
    /\ filterState = "registered"

\* C18: a request creates and registers exactly one filter/queue pair, on
\* its first poll, however often it is polled before it resolves.
C18_RegisteredOnce ==
    /\ registrations <= 1
    /\ (polls = 0 => registrations = 0 /\ filterState = "unborn")
    /\ (polls >= 1 => registrations = 1)

C18_Witness ==
    /\ kind = "CollectEvent"
    /\ polls = 3
    /\ fut = "pending"
    /\ registrations = 1
    /\ Len(calls) = 2

\* The first call after the receiver was closed whose event is acceptable.
FailedCalls == CallsAfterClose \cap AcceptableCalls

\* C19: once the one-shot request has resolved, its collector is gone and
\* the consumer end closed: nothing is enqueued or delivered any more,
\* every later call with an acceptable event returns false, and until the
\* first such call a call with a rejected event returns the limit check.
C19_AfterOneShot ==
    result # None =>
        /\ collector = "gone"
        /\ rxClosed
        /\ queue = <<>>
        /\ Len(observed) <= 1
        /\ \A k \in CallsAfterClose :
              /\ \A i \in 1..Len(sent) : sent[i] # calls[k]
              /\ (k \in AcceptableCalls => rets[k] = FALSE)
              /\ (\A j \in FailedCalls : k < j) =>
                    rets[k] = (\A l \in options.filter_limit : k < l)

C19_Witness ==
    /\ result # None
    /\ Unwrap(result) # None
    /\ options.filter_limit = None
    /\ closedAt = Some(1)
    /\ Len(calls) = 3
    /\ rets = <<TRUE, TRUE, FALSE>>
    /\ AcceptableCalls = {1, 3}

\* No enqueue attempt has failed so far.
NoFailedSend == FailedCalls = {}

\* C20: as long as no enqueue attempt has failed, collected <= filtered and
\* the number of events ever enqueued equals collected; neither counter
\* ever decreases.
C20_CounterInvariants ==
    /\ [](NoFailedSend => (collected <= filtered /\ Len(sent) = collected))
    /\ [][filtered' >= filtered /\ collected' >= collected]_vars

C20_Witness ==
    /\ NoFailedSend
    /\ closedAt = Some(1)
    /\ Len(calls) = 3
    /\ options.filter # None
    /\ predicateCalls # <<>>
    /\ collected = 1
    /\ filtered = 3
    /\ Len(sent) = 1

====
